---------------------------- MODULE Spec2Model ----------------------------
(***************************************************************************)
(* A model of App.Processing (src/app.go): endpoint resolution, the SDK    *)
(* configuration load, the identity check with its single SSO login        *)
(* fallback, the filter normalisation, and the two paginated walks (SSM    *)
(* DescribeParameters, EC2 DescribeInstances).                             *)
(*                                                                         *)
(* One run of Processing is split at its blocking calls: every action is   *)
(* one external call together with all the code that runs until the next   *)
(* one (or until the return).  The outcome of an external call (an error,  *)
(* a page) is chosen by the environment.                                   *)
(*                                                                         *)
(* Strings that the code inspects character by character (the filter) are  *)
(* sequences of one-character strings; Go's nil pointers are NIL.          *)
(***************************************************************************)
EXTENDS Integers, Sequences, FiniteSets, TLC

\* ------------------------------------------------------------------ bounds
MaxFilterLen == 3     \* longest raw filter
MaxPages     == 3     \* most pages a listing serves
MaxParamPages == 2    \* most pages, where every page content is enumerated
MaxItems     == 2     \* most entries in one parameter page
MaxTags      == 2     \* most tags on one instance
MaxSections  == 2     \* most section headers in one file of ~/.aws
MaxRuns      == 2     \* most runs started from the window

\* ------------------------------------------------------------------ values
NIL   == "<nil>"      \* a nil *string
NoErrValue == [kind |-> "", names |-> "", wraps |-> ""]

Star == "*"
FilterChars == {"a", Star}

SeqsOfLen(S, n) == [1..n -> S]

SeqsUpTo(S, n) == UNION {SeqsOfLen(S, k) : k \in 0..n}

NonEmptySeqsUpTo(S, n) == UNION {SeqsOfLen(S, k) : k \in 1..n}

\* ------------------------------------------------- strings (package strings)
\* strings.HasSuffix(s, "*")
HasSuffixStar(s) == Len(s) >= 1 /\ s[Len(s)] = Star

\* strings.TrimSuffix(s, "*"): removes one trailing "*" when there is one
TrimSuffixStar(s) == IF HasSuffixStar(s) THEN SubSeq(s, 1, Len(s) - 1) ELSE s

\* ------------------------------------------------ ~/.aws/config (ini file)
URL1 == "http://localhost:4566"
URL2 == "http://localhost:4577"
NoKey == "<no endpoint_url>"

\* ini's Section(name) returns an empty section when the file has none.
Section(file, name) ==
    IF name \in DOMAIN file.sections THEN file.sections[name] ELSE NoKey

HasKey(section) == section # NoKey

\* Mutant: a profile without the key inherits the default profile's.
getEndpointWithDefaultFallback(file, profile) ==
    IF file.homeErr THEN ""
    ELSE IF file.loadErr THEN ""
    ELSE LET sectionName == IF profile = "default" THEN "default"
                            ELSE "profile " \o profile
             first   == Section(file, sectionName)
             second  == IF ~HasKey(first) THEN Section(file, profile) ELSE first
             section == IF ~HasKey(second) THEN Section(file, "default")
                        ELSE second
         IN IF HasKey(section) THEN section ELSE ""

\* Mutant: the bare section is looked up first, the prefixed one second.
getEndpointBareFirst(file, profile) ==
    IF file.homeErr THEN ""
    ELSE IF file.loadErr THEN ""
    ELSE LET sectionName == IF profile = "default" THEN "default"
                            ELSE "profile " \o profile
             first   == Section(file, profile)
             section == IF ~HasKey(first) THEN Section(file, sectionName)
                        ELSE first
         IN IF HasKey(section) THEN section ELSE ""

getEndpointFromConfig(file, profile) ==
    IF file.homeErr THEN ""
    ELSE IF file.loadErr THEN ""
    ELSE LET sectionName == IF profile = "default" THEN "default"
                            ELSE "profile " \o profile
             first   == Section(file, sectionName)
             section == IF ~HasKey(first) THEN Section(file, profile) ELSE first
         IN IF HasKey(section) THEN section ELSE ""


\* ------------------------------------------------------- errors (fmt.Errorf)
\* An error value: its message, what the message names, and the error it
\* wraps with %w ("" when it wraps none; %v does not wrap).
Err(kind, names, wraps) == [kind |-> kind, names |-> names, wraps |-> wraps]

IsErr(e) == e # NoErrValue

\* The errors sts.GetCallerIdentity can return.
StsErrors == {"ExpiredToken", "connection refused"}

\* ------------------------------------------------------------- the result
\* *AWSResult: nil, or a pointer to the struct with its two slices.
NilResult == [nil |-> TRUE, Parameters |-> <<>>, Instances |-> <<>>]

AWSResult(ps, is) == [nil |-> FALSE, Parameters |-> ps, Instances |-> is]

EC2Instance(name, ami) == [Name |-> name, AMI |-> ami]

\* --------------------------------------------------------------- paginators
\* ssm.NewDescribeParametersPaginator / ec2.NewDescribeInstancesPaginator:
\* firstPage is set, the token is empty (0).
NewPaginator == [firstPage |-> TRUE, nextToken |-> 0]

NoPaginator == [firstPage |-> FALSE, nextToken |-> 0]

HasMorePages(p) == p.firstPage \/ p.nextToken # 0

\* The page a paginator asks the service for, and the token the service
\* answers with: the next page's, or none (0) on the last page.
PageAsked(p) == IF p.firstPage THEN 1 ELSE p.nextToken

TokenAfter(server, k) == IF k < Len(server) THEN k + 1 ELSE 0

AfterPage(server, p) ==
    [firstPage |-> FALSE, nextToken |-> TokenAfter(server, PageAsked(p))]

\* ------------------------------------------------------ filter normalisation
cleanFilterOf(f) == TrimSuffixStar(f)

\* Mutant: a "*" is appended to the raw filter whatever it ends with.
searchFilterAlwaysAppending(f) == Append(f, Star)

\* Mutant: "contains" matching, a "*" in front as well as at the end.
searchFilterContains(f) ==
    LET cleanFilter == cleanFilterOf(f)
    IN <<Star>> \o (IF ~HasSuffixStar(cleanFilter) THEN Append(cleanFilter, Star)
                    ELSE cleanFilter)

searchFilterOf(f) ==
    LET cleanFilter == cleanFilterOf(f)
    IN IF ~HasSuffixStar(cleanFilter) THEN Append(cleanFilter, Star)
       ELSE cleanFilter

\* ------------------------------------------------------- parameter page loop
\* Mutant: a name already collected is not collected again.
RECURSIVE AppendNewNames(_, _)
AppendNewNames(acc, entries) ==
    IF entries = <<>> THEN acc
    ELSE AppendNewNames(
             IF Head(entries) # NIL
                /\ \A i \in DOMAIN acc : acc[i] # Head(entries)
             THEN Append(acc, Head(entries))
             ELSE acc,
             Tail(entries))

\* for _, p := range page.Parameters { if p.Name != nil { append } }
RECURSIVE AppendNames(_, _)
AppendNames(acc, entries) ==
    IF entries = <<>> THEN acc
    ELSE AppendNames(IF Head(entries) # NIL THEN Append(acc, Head(entries))
                     ELSE acc,
                     Tail(entries))

\* -------------------------------------------------------- instance page loop
\* The tag loop of one instance.  Dereferencing a nil Key, or the nil Value
\* of the tag the loop stops at, panics.
RECURSIVE TagLoop(_)
TagLoop(tags) ==
    IF tags = <<>> THEN [panic |-> FALSE, name |-> ""]
    ELSE LET tag == Head(tags)
         IN IF tag.Key = NIL THEN [panic |-> TRUE, name |-> ""]
            ELSE IF tag.Key = "Name"
                 THEN IF tag.Value = NIL THEN [panic |-> TRUE, name |-> ""]
                      ELSE [panic |-> FALSE, name |-> tag.Value]
                 ELSE TagLoop(Tail(tags))

amiOf(inst) == IF inst.ImageId # NIL THEN inst.ImageId ELSE ""

\* The instances of a page in the order the two range loops visit them.
RECURSIVE InstancesOfPage(_)
InstancesOfPage(reservations) ==
    IF reservations = <<>> THEN <<>>
    ELSE Head(reservations) \o InstancesOfPage(Tail(reservations))

\* The loop body over the instances of one page: the slice after the page,
\* or a panic at the first instance whose tag loop panics.
RECURSIVE AppendInstances(_, _)
AppendInstances(acc, insts) ==
    IF insts = <<>> THEN [panic |-> FALSE, instances |-> acc]
    ELSE LET t == TagLoop(Head(insts).Tags)
         IN IF t.panic THEN [panic |-> TRUE, instances |-> acc]
            ELSE AppendInstances(
                     Append(acc, EC2Instance(t.name, amiOf(Head(insts)))),
                     Tail(insts))


\* -------------------------------------------------------------------- state
\* ------------------------------------------------------------ ListProfiles
\* A file of ~/.aws as os.Stat and ini.Load find it: headers are the section
\* headers it holds, in file order.
Absent == [exists |-> FALSE, loadErr |-> FALSE, headers |-> <<>>]

Unreadable == [exists |-> TRUE, loadErr |-> TRUE, headers |-> <<>>]

Listing(headers) == [exists |-> TRUE, loadErr |-> FALSE, headers |-> headers]

\* cfg.Sections(): the ini package's own DEFAULT section comes first, a
\* [DEFAULT] header of the file is that same section, and the named sections
\* follow in file order.
Sections(file) ==
    <<"DEFAULT">> \o SelectSeq(file.headers, LAMBDA h : h # "DEFAULT")

\* What can follow "profile " in a section header.
Stems == {"dev", "profile dev"}

\* strings.HasPrefix(name, "profile ")
HasPrefixProfile(name) == \E n \in Stems : name = "profile " \o n

\* strings.TrimPrefix(name, "profile "): removes one leading "profile "
TrimPrefixProfile(name) ==
    IF HasPrefixProfile(name)
    THEN CHOOSE n \in Stems : name = "profile " \o n
    ELSE name

\* []string: nil, or a slice with its items.
NilList == [nil |-> TRUE, items |-> <<>>]

List(items) == [nil |-> FALSE, items |-> items]

\* append(profiles, x)
appendProfile(list, x) == List(Append(list.items, x))

\* Mutant: the section name is appended as it stands.
profileNameKeepingPrefix(name) == name

\* Lines 110-115: the entry a section name contributes.
profileName(name) ==
    IF HasPrefixProfile(name) THEN TrimPrefixProfile(name) ELSE name

\* Lines 103-116: the loop over cfg.Sections().
RECURSIVE SectionLoop(_, _)
SectionLoop(sections, list) ==
    IF sections = <<>> THEN list
    ELSE LET name == Head(sections)
         IN IF name = "DEFAULT"
            THEN SectionLoop(Tail(sections), list)
            ELSE SectionLoop(Tail(sections),
                             appendProfile(list, profileName(name)))

VARIABLES
    profile,      \* argument: the profile name
    filter,       \* argument: the raw filter
    awsFile,      \* environment: ~/.aws/config as ini.Load sees it
    ssmServer,    \* environment: the pages DescribeParameters serves
    ec2Server,    \* environment: the pages DescribeInstances serves
    pc,           \* where the run is: the blocking call it is about to make
    endpointURL,  \* local endpointURL
    cfg,          \* local cfg: 0 not loaded, 1 first load, 2 reloaded
    err,          \* local err: the identity check's error ("" when nil)
    pathErr,      \* local pathErr of exec.LookPath ("" when nil)
    runErr,       \* local runErr of cmd.Run ("" when nil)
    searchFilter, \* the Values entry of the ParametersFilter sent
    paginator,    \* local paginator (SSM)
    ec2Pager,     \* local ec2Pager
    params,       \* local params
    instances,    \* local instances
    result,       \* local result (the struct result points to)
    retResult,    \* returned *AWSResult
    retErr,       \* returned error
    trace,        \* history: the external calls made so far, in order
    awsDir,       \* environment: the home directory and the two files of ~/.aws
    listPc,       \* where the ListProfiles call is: "idle" or "done"
    configPath,   \* ListProfiles' local configPath: the file it settled on
    profiles,     \* ListProfiles' returned []string
    listErr,      \* ListProfiles' returned error
    mountPc,      \* App.svelte onMount: "awaiting" ListProfiles, or "done"
    shellProfiles,   \* App.svelte profiles (null when the binding gave null)
    selectedProfile, \* App.svelte selectedProfile
    shellResult,  \* App.svelte result (NilResult when null)
    loading,      \* App.svelte loading
    error,        \* App.svelte error (NIL when null)
    feedbackMessage, \* App.svelte feedbackMessage (NIL when null)
    started,      \* history: Processing calls made by startProcessing
    settled       \* history: Processing promises that resolved or rejected

inputs == <<profile, filter, awsFile, ssmServer, ec2Server>>

locals == <<endpointURL, cfg, err, pathErr, runErr, searchFilter, paginator, ec2Pager,
            params, instances, result>>

listing == <<awsDir, listPc, configPath, profiles, listErr>>

processing == <<profile, filter, awsFile, ssmServer, ec2Server, pc, endpointURL,
                cfg, err, pathErr, runErr, searchFilter, paginator, ec2Pager,
                params, instances, result, retResult, retErr, trace>>

shell == <<mountPc, shellProfiles, selectedProfile, shellResult, loading,
           error, feedbackMessage, started, settled>>

vars == <<processing, listing, shell>>

\* An external call, the configuration (cfg) its client was made from, and
\* whether it returned without an error.
Event(op, c, ok) == [op |-> op, cfg |-> c, ok |-> ok]

\* ------------------------------------------------------------ input universes
Profiles == {"default", "dev"}

IniFile(sections) == [homeErr |-> FALSE, loadErr |-> FALSE, sections |-> sections]

NoHome == [homeErr |-> TRUE, loadErr |-> FALSE, sections |-> <<>>]

NoFile == [homeErr |-> FALSE, loadErr |-> TRUE, sections |-> <<>>]

SectionNames == {"default", "profile dev", "dev"}

AllFiles ==
    {NoHome, NoFile} \cup
    {IniFile(f) : f \in UNION {[S -> {NoKey, URL1, URL2}] : S \in SUBSET SectionNames}}

SomeFiles ==
    { NoFile,
      IniFile([x \in {"profile dev", "default"} |-> NoKey]),
      IniFile([x \in {"profile dev", "default"} |-> URL1]) }

AllFilters == SeqsUpTo(FilterChars, MaxFilterLen)

SomeFilters == {<<>>, <<"a", Star>>}

ParamNames == {"a", "b"}

AllParamPages == SeqsUpTo(ParamNames \cup {NIL}, MaxItems)

SomeParamPages == {<<"a">>, <<NIL, "b">>}

TagKeys == {"Name", "Env", NIL}

TagValues == {"web", "x", NIL}

AllTags == [Key : TagKeys, Value : TagValues]

ImageIds == {"ami-1", NIL}

AllInstances == [Tags : SeqsUpTo(AllTags, MaxTags), ImageId : ImageIds]

Tag(k, v) == [Key |-> k, Value |-> v]

Instance(tags, image) == [Tags |-> tags, ImageId |-> image]

Untagged == Instance(<<>>, NIL)

Web == Instance(<<Tag("Env", "x"), Tag("Name", "web")>>, "ami-1")

NoKeyTag == Instance(<<Tag(NIL, "x")>>, "ami-1")

\* Pages are sequences of reservations, reservations sequences of instances.
SomeInstancePages ==
    { << <<Web>>, <<Untagged, Web>> >>,
      << <<NoKeyTag>> >> }

SomeParamServers == NonEmptySeqsUpTo(SomeParamPages, MaxPages)

SomeInstanceServers == NonEmptySeqsUpTo(SomeInstancePages, MaxPages)

AllParamServers == NonEmptySeqsUpTo(AllParamPages, MaxParamPages)

OneParamServer == {<< <<"a">> >>}

OneInstanceServer == {<< << <<Web>> >> >>}

TwoInstanceServers == {<< << <<Web>> >> >>, << << <<NoKeyTag>> >> >>}

\* One page holding one reservation of one instance, for every instance of
\* up to MaxTags tags.
AllInstanceServers == {<< << <<i>> >> >> : i \in AllInstances}

\* ------------------------------------------------------------------- Init
InitProcessing(Profs, Files, Filters, ParamServers, InstanceServers) ==
    /\ profile \in Profs
    /\ filter \in Filters
    /\ awsFile \in Files
    /\ ssmServer \in ParamServers
    /\ ec2Server \in InstanceServers
    /\ pc = "start"
    /\ endpointURL = ""
    /\ cfg = 0
    /\ err = ""
    /\ pathErr = ""
    /\ runErr = ""
    /\ searchFilter = <<>>
    /\ paginator = NoPaginator
    /\ ec2Pager = NoPaginator
    /\ params = <<>>
    /\ instances = <<>>
    /\ result = NilResult
    /\ retResult = NilResult
    /\ retErr = NoErrValue
    /\ trace = <<>>

\* ~/.aws for ListProfiles.
AwsDir(config, credentials) ==
    [homeErr |-> FALSE, config |-> config, credentials |-> credentials]

NoHomeDir == [homeErr |-> TRUE, config |-> Absent, credentials |-> Absent]

Headers ==
    {"default", "dev", "profile dev", "DEFAULT", "profile", "profile profile dev"}

\* The ini package keeps one section per name.
DistinctSeqsUpTo(S, n) ==
    {q \in SeqsUpTo(S, n) : \A i, j \in DOMAIN q : q[i] = q[j] => i = j}

AllListings ==
    {Absent, Unreadable} \cup
    {Listing(h) : h \in DistinctSeqsUpTo(Headers, MaxSections)}

SomeListings ==
    {Absent, Unreadable, Listing(<<>>), Listing(<<"default", "dev">>)}

AllAwsDirs ==
    {NoHomeDir} \cup
    {AwsDir(c, k) : c \in AllListings, k \in SomeListings} \cup
    {AwsDir(c, k) : c \in SomeListings, k \in AllListings}

UsualAwsDir == AwsDir(Listing(<<"default", "profile dev">>), Absent)

InitListing(Dirs) ==
    /\ awsDir \in Dirs
    /\ listPc = "idle"
    /\ configPath = ""
    /\ profiles = NilList
    /\ listErr = NoErrValue

\* App.svelte lines 15-21: the window as it is constructed.
InitShell ==
    /\ mountPc = "awaiting"
    /\ shellProfiles = List(<<>>)
    /\ selectedProfile = ""
    /\ shellResult = NilResult
    /\ loading = FALSE
    /\ error = NIL
    /\ feedbackMessage = NIL
    /\ started = 0
    /\ settled = 0

\* Processing called on its own: the window takes no step.
InitWith(Profs, Files, Filters, ParamServers, InstanceServers) ==
    /\ InitProcessing(Profs, Files, Filters, ParamServers, InstanceServers)
    /\ InitListing({UsualAwsDir})
    /\ InitShell

Init == InitWith(Profiles, SomeFiles, SomeFilters, SomeParamServers, SomeInstanceServers)

\* ---------------------------------------------------------------- returns
\* Mutant: the error is returned together with what result points to.
ReturnErrWithResult(e) ==
    /\ pc' = "done"
    /\ retResult' = result
    /\ retErr' = e

\* return nil, fmt.Errorf(...)
ReturnErr(e) ==
    /\ pc' = "done"
    /\ retResult' = NilResult
    /\ retErr' = e

\* return result, nil
ReturnResult(r) ==
    /\ pc' = "done"
    /\ retResult' = r
    /\ retErr' = NoErrValue

\* ------------------------------------------------------------- the actions
\* Lines 123-154: resolve the endpoint, then config.LoadDefaultConfig.
LoadConfig ==
    /\ pc = "start"
    /\ endpointURL' = getEndpointFromConfig(awsFile, profile)
    /\ \/ /\ cfg' = 1
          /\ trace' = Append(trace, Event("LoadDefaultConfig", 0, TRUE))
          /\ pc' = "validate"
          /\ UNCHANGED <<retResult, retErr>>
       \/ /\ trace' = Append(trace, Event("LoadDefaultConfig", 0, FALSE))
          /\ ReturnErr(Err("unable to load SDK config", "", ""))
          /\ UNCHANGED cfg
    /\ UNCHANGED <<shell, listing, inputs, err, pathErr, runErr, searchFilter, paginator,
                   ec2Pager, params, instances, result>>

\* Lines 189-236: result, the SSM client, the normalised filter and the
\* paginator.
StartSearch ==
    /\ result' = AWSResult(<<>>, <<>>)
    /\ searchFilter' = searchFilterOf(filter)
    /\ paginator' = NewPaginator
    /\ pc' = "ssm"

\* Mutant: the custom-endpoint test left out, so that a failed identity check
\* always goes on to the SSO login.
CustomEndpointIgnored(url) == FALSE

\* if endpointURL != "" (line 162)
CustomEndpoint(url) == url # ""

\* Lines 157-180 and, when the identity check passes, 189-236.
ValidateAuth ==
    /\ pc = "validate"
    /\ \/ /\ err' = ""
          /\ trace' = Append(trace, Event("GetCallerIdentity", cfg, TRUE))
          /\ StartSearch
          /\ UNCHANGED <<pathErr, retResult, retErr>>
       \/ \E e \in StsErrors :
            /\ err' = e
            /\ trace' = Append(trace, Event("GetCallerIdentity", cfg, FALSE))
            /\ IF CustomEndpoint(endpointURL)
               THEN /\ ReturnErr(Err("failed to validate identity with custom endpoint",
                                     endpointURL, e))
                    /\ UNCHANGED pathErr
               ELSE \/ /\ pathErr' = "executable file not found in $PATH"
                       /\ ReturnErr(Err("aws cli not found in PATH, cannot perform sso login",
                                        "aws", e))
                    \/ /\ pathErr' = ""
                       /\ pc' = "login"
                       /\ UNCHANGED <<retResult, retErr>>
            /\ UNCHANGED <<result, searchFilter, paginator>>
    /\ UNCHANGED <<shell, listing, inputs, endpointURL, cfg, runErr, ec2Pager, params,
                   instances>>

\* Mutant: the exit status of the login is not looked at; the configuration
\* is reloaded whatever cmd.Run returned.
LoginIgnoringExit ==
    /\ pc = "login"
    /\ \E ok \in BOOLEAN :
         /\ runErr' = IF ok THEN "" ELSE "exit status 1"
         /\ trace' = Append(trace, Event("aws sso login", 0, ok))
    /\ pc' = "reload"
    /\ UNCHANGED <<shell, listing, inputs, endpointURL, cfg, err, pathErr, searchFilter,
                   paginator, ec2Pager, params, instances, result, retResult,
                   retErr>>

\* Lines 174-180: exec.Command("aws", "sso", "login", ...).Run()
Login ==
    /\ pc = "login"
    /\ \/ /\ runErr' = ""
          /\ trace' = Append(trace, Event("aws sso login", 0, TRUE))
          /\ pc' = "reload"
          /\ UNCHANGED <<retResult, retErr>>
       \/ /\ runErr' = "exit status 1"
          /\ trace' = Append(trace, Event("aws sso login", 0, FALSE))
          /\ ReturnErr(Err("aws sso login failed", "", "exit status 1"))
    /\ UNCHANGED <<shell, listing, inputs, endpointURL, cfg, err, pathErr, searchFilter,
                   paginator, ec2Pager, params, instances, result>>

\* Mutant: a retry loop; the reloaded configuration is validated again.
ReloadAndRevalidate ==
    /\ pc = "reload"
    /\ \/ /\ cfg' = 2
          /\ trace' = Append(trace, Event("LoadDefaultConfig", 0, TRUE))
          /\ pc' = "validate"
          /\ UNCHANGED <<retResult, retErr>>
       \/ /\ trace' = Append(trace, Event("LoadDefaultConfig", 0, FALSE))
          /\ ReturnErr(Err("unable to reload SDK config after login", "", ""))
          /\ UNCHANGED cfg
    /\ UNCHANGED <<shell, listing, inputs, endpointURL, err, pathErr, runErr, ec2Pager,
                   params, instances, result, searchFilter, paginator>>

\* Mutant: the error of the reload is not looked at; the search starts
\* whatever LoadDefaultConfig returned.
ReloadIgnoringError ==
    /\ pc = "reload"
    /\ \E ok \in BOOLEAN :
         /\ cfg' = IF ok THEN 2 ELSE cfg
         /\ trace' = Append(trace, Event("LoadDefaultConfig", 0, ok))
    /\ StartSearch
    /\ UNCHANGED <<shell, listing, inputs, endpointURL, err, pathErr, runErr, ec2Pager,
                   params, instances, retResult, retErr>>

\* Mutant: "cfg, err :=" inside the if block; the reloaded configuration is
\* a new variable and the clients are made from the first one.
ReloadShadowingCfg ==
    /\ pc = "reload"
    /\ \/ /\ trace' = Append(trace, Event("LoadDefaultConfig", 0, TRUE))
          /\ StartSearch
          /\ UNCHANGED <<cfg, retResult, retErr>>
       \/ /\ trace' = Append(trace, Event("LoadDefaultConfig", 0, FALSE))
          /\ ReturnErr(Err("unable to reload SDK config after login", "", ""))
          /\ UNCHANGED <<cfg, result, searchFilter, paginator>>
    /\ UNCHANGED <<shell, listing, inputs, endpointURL, err, pathErr, runErr, ec2Pager,
                   params, instances>>

\* Lines 183-186 and, when the reload succeeds, 189-236.
Reload ==
    /\ pc = "reload"
    /\ \/ /\ cfg' = 2
          /\ trace' = Append(trace, Event("LoadDefaultConfig", 0, TRUE))
          /\ StartSearch
          /\ UNCHANGED <<retResult, retErr>>
       \/ /\ trace' = Append(trace, Event("LoadDefaultConfig", 0, FALSE))
          /\ ReturnErr(Err("unable to reload SDK config after login", "", ""))
          /\ UNCHANGED <<cfg, result, searchFilter, paginator>>
    /\ UNCHANGED <<shell, listing, inputs, endpointURL, err, pathErr, runErr, ec2Pager,
                   params, instances>>


\* Lines 238-253: one turn of the parameter loop (paginator.NextPage and the
\* range over the page) and, after the last page, the EC2 paginator.
SsmNextPage ==
    /\ pc = "ssm"
    /\ HasMorePages(paginator)
    /\ \/ /\ trace' = Append(trace, Event("DescribeParameters", cfg, FALSE))
          /\ ReturnErr(Err("failed to list params", "", "ssm page error"))
          /\ UNCHANGED <<paginator, params, result, ec2Pager>>
       \/ LET page == ssmServer[PageAsked(paginator)]
              next == AfterPage(ssmServer, paginator)
              ps   == AppendNames(params, page)
          IN /\ trace' = Append(trace, Event("DescribeParameters", cfg, TRUE))
             /\ paginator' = next
             /\ params' = ps
             /\ IF HasMorePages(next)
                THEN UNCHANGED <<pc, result, ec2Pager>>
                ELSE /\ result' = [result EXCEPT !.Parameters = ps]
                     /\ ec2Pager' = NewPaginator
                     /\ pc' = "ec2"
             /\ UNCHANGED <<retResult, retErr>>
    /\ UNCHANGED <<shell, listing, inputs, endpointURL, cfg, err, pathErr, runErr,
                   searchFilter, instances>>

\* Mutant: a failed page ends the loop instead of the run; what was collected
\* is returned.
Ec2NextPageBreakOnError ==
    /\ pc = "ec2"
    /\ HasMorePages(ec2Pager)
    /\ \/ /\ trace' = Append(trace, Event("DescribeInstances", cfg, FALSE))
          /\ result' = [result EXCEPT !.Instances = instances]
          /\ ReturnResult([result EXCEPT !.Instances = instances])
          /\ UNCHANGED <<ec2Pager, instances>>
       \/ LET page == ec2Server[PageAsked(ec2Pager)]
              next == AfterPage(ec2Server, ec2Pager)
              loop == AppendInstances(instances, InstancesOfPage(page))
          IN /\ trace' = Append(trace, Event("DescribeInstances", cfg, TRUE))
             /\ ec2Pager' = next
             /\ instances' = loop.instances
             /\ IF loop.panic
                THEN /\ pc' = "panic"
                     /\ UNCHANGED <<result, retResult, retErr>>
                ELSE IF HasMorePages(next)
                THEN UNCHANGED <<pc, result, retResult, retErr>>
                ELSE /\ result' = [result EXCEPT !.Instances = loop.instances]
                     /\ ReturnResult([result EXCEPT !.Instances = loop.instances])
    /\ UNCHANGED <<shell, listing, inputs, endpointURL, cfg, err, pathErr, runErr,
                   searchFilter, paginator, params>>

\* Lines 256-283: one turn of the instance loop (ec2Pager.NextPage and the
\* three nested ranges) and, after the last page, the return.
Ec2NextPage ==
    /\ pc = "ec2"
    /\ HasMorePages(ec2Pager)
    /\ \/ /\ trace' = Append(trace, Event("DescribeInstances", cfg, FALSE))
          /\ ReturnErr(Err("failed to describe instances", "", "ec2 page error"))
          /\ UNCHANGED <<ec2Pager, instances, result>>
       \/ LET page == ec2Server[PageAsked(ec2Pager)]
              next == AfterPage(ec2Server, ec2Pager)
              loop == AppendInstances(instances, InstancesOfPage(page))
          IN /\ trace' = Append(trace, Event("DescribeInstances", cfg, TRUE))
             /\ ec2Pager' = next
             /\ instances' = loop.instances
             /\ IF loop.panic
                THEN /\ pc' = "panic"
                     /\ UNCHANGED <<result, retResult, retErr>>
                ELSE IF HasMorePages(next)
                THEN UNCHANGED <<pc, result, retResult, retErr>>
                ELSE /\ result' = [result EXCEPT !.Instances = loop.instances]
                     /\ ReturnResult([result EXCEPT !.Instances = loop.instances])
    /\ UNCHANGED <<shell, listing, inputs, endpointURL, cfg, err, pathErr, runErr,
                   searchFilter, paginator, params>>

\* Mutant: with neither file there, the listing fails.
ListProfilesFailingWhenAbsent ==
    /\ listPc = "idle"
    /\ listPc' = "done"
    /\ IF awsDir.homeErr
       THEN /\ configPath' = ""
            /\ profiles' = NilList
            /\ listErr' = Err("failed to get user home", "", "no home")
       ELSE LET path == IF ~awsDir.config.exists THEN "credentials"
                        ELSE "config"
                file == awsDir[path]
            IN /\ configPath' = path
               /\ IF ~file.exists \/ file.loadErr
                  THEN /\ profiles' = NilList
                       /\ listErr' = Err("failed to load aws config", "", "load")
                  ELSE /\ profiles' = SectionLoop(Sections(file), NilList)
                       /\ listErr' = NoErrValue
    /\ UNCHANGED <<awsDir, processing, shell>>

\* Lines 79-118: ListProfiles, one call.
ListProfiles ==
    /\ listPc = "idle"
    /\ listPc' = "done"
    /\ IF awsDir.homeErr
       THEN /\ configPath' = ""
            /\ profiles' = NilList
            /\ listErr' = Err("failed to get user home", "", "no home")
       ELSE LET path == IF ~awsDir.config.exists THEN "credentials"
                        ELSE "config"
                file == awsDir[path]
            IN /\ configPath' = path
               /\ IF ~file.exists
                  THEN /\ profiles' = List(<<>>)
                       /\ listErr' = NoErrValue
                  ELSE IF file.loadErr
                  THEN /\ profiles' = NilList
                       /\ listErr' = Err("failed to load aws config", "", "load")
                  ELSE /\ profiles' = SectionLoop(Sections(file), NilList)
                       /\ listErr' = NoErrValue
    /\ UNCHANGED <<awsDir, processing, shell>>

\* ------------------------------------------------------ the window (App.svelte)
\* Lines 23-32: the ListProfiles promise of onMount settles.  A rejection, and
\* the TypeError of null.length, end in the catch.
MountResolves ==
    /\ mountPc = "awaiting"
    /\ listPc = "done"
    /\ mountPc' = "done"
    /\ IF IsErr(listErr)
       THEN /\ error' = "Failed to load profiles: "
            /\ UNCHANGED <<shellProfiles, selectedProfile>>
       ELSE /\ shellProfiles' = profiles
            /\ IF profiles.nil
               THEN /\ error' = "Failed to load profiles: "
                    /\ UNCHANGED selectedProfile
               ELSE /\ selectedProfile' = IF Len(profiles.items) > 0
                                          THEN profiles.items[1]
                                          ELSE selectedProfile
                    /\ UNCHANGED error
    /\ UNCHANGED <<shellResult, loading, feedbackMessage, started, settled>>
    /\ UNCHANGED <<processing, listing>>

\* Line 60: the select, bound to selectedProfile, enabled while not loading
\* and while there are profiles.
SelectProfile ==
    /\ ~shellProfiles.nil
    /\ ~(loading \/ Len(shellProfiles.items) = 0)
    /\ \E i \in DOMAIN shellProfiles.items :
           selectedProfile' = shellProfiles.items[i]
    /\ UNCHANGED <<mountPc, shellProfiles, shellResult, loading, error,
                   feedbackMessage, started, settled>>
    /\ UNCHANGED <<processing, listing>>

\* Lines 69-75: the filter input, bound to filter, enabled while not loading.
EditFilter ==
    /\ ~loading
    /\ filter' \in SomeFilters
    /\ UNCHANGED <<profile, awsFile, ssmServer, ec2Server, pc, locals,
                   retResult, retErr, trace>>
    /\ UNCHANGED <<listing, shell>>

\* Processing(selectedProfile, filter) is called: a new run at its entry.
CallProcessing ==
    /\ profile' = selectedProfile
    /\ pc' = "start"
    /\ endpointURL' = ""
    /\ cfg' = 0
    /\ err' = ""
    /\ pathErr' = ""
    /\ runErr' = ""
    /\ searchFilter' = <<>>
    /\ paginator' = NoPaginator
    /\ ec2Pager' = NoPaginator
    /\ params' = <<>>
    /\ instances' = <<>>
    /\ result' = NilResult
    /\ retResult' = NilResult
    /\ retErr' = NoErrValue
    /\ trace' = <<>>
    /\ UNCHANGED <<filter, awsFile, ssmServer, ec2Server>>

\* Mutant: the button is disabled only while no profile is selected.
StartClickWhileLoading ==
    /\ started < MaxRuns
    /\ ~(selectedProfile = "")
    /\ loading' = TRUE
    /\ error' = NIL
    /\ shellResult' = NilResult
    /\ feedbackMessage' = "Processing..."
    /\ started' = started + 1
    /\ CallProcessing
    /\ UNCHANGED <<mountPc, shellProfiles, selectedProfile, settled>>
    /\ UNCHANGED listing

\* Lines 78 and 34-42: a click on the Start button, which is disabled while
\* loading or while no profile is selected, runs startProcessing up to its
\* await.
StartClick ==
    /\ started < MaxRuns
    /\ ~(loading \/ selectedProfile = "")
    /\ ~(selectedProfile = "")
    /\ loading' = TRUE
    /\ error' = NIL
    /\ shellResult' = NilResult
    /\ feedbackMessage' = "Processing..."
    /\ started' = started + 1
    /\ CallProcessing
    /\ UNCHANGED <<mountPc, shellProfiles, selectedProfile, settled>>
    /\ UNCHANGED listing

\* Lines 42-50: the Processing promise settles.  A returned error rejects it;
\* a panic of the bound method either rejects it or ends the process, in
\* which case nothing settles.
ProcessingSettles ==
    /\ started > settled
    /\ pc \in {"done", "panic"}
    /\ pc' = "idle"
    /\ settled' = settled + 1
    /\ IF pc = "done" /\ ~IsErr(retErr)
       THEN /\ shellResult' = retResult
            /\ feedbackMessage' = NIL
            /\ UNCHANGED error
       ELSE /\ error' = "Error during processing: "
            /\ feedbackMessage' = NIL
            /\ UNCHANGED shellResult
    /\ loading' = FALSE
    /\ UNCHANGED <<mountPc, shellProfiles, selectedProfile, started>>
    /\ UNCHANGED <<inputs, locals, retResult, retErr, trace>>
    /\ UNCHANGED listing

\* One step of a Processing call.
Processing ==
    \/ LoadConfig
    \/ ValidateAuth
    \/ Login
    \/ Reload
    \/ SsmNextPage
    \/ Ec2NextPage

Next ==
    \/ LoadConfig
    \/ ValidateAuth
    \/ Login
    \/ Reload
    \/ SsmNextPage
    \/ Ec2NextPage
    \/ ListProfiles

Spec == Init /\ [][Next]_vars

\* The same program on every raw filter up to MaxFilterLen.
InitFilter ==
    InitWith(Profiles, SomeFiles, AllFilters, OneParamServer, TwoInstanceServers)

SpecFilter == InitFilter /\ [][Next]_vars

\* The same program on every parameter listing up to MaxParamPages pages of up
\* to MaxItems entries.
InitParams ==
    InitWith({"dev"}, {NoFile}, {<<"a">>}, AllParamServers, OneInstanceServer)

SpecParams == InitParams /\ [][Next]_vars

\* The same program on every instance of up to MaxTags tags.
InitInstances ==
    InitWith({"dev"}, {NoFile}, {<<"a">>}, OneParamServer, AllInstanceServers)

SpecInstances == InitInstances /\ [][Next]_vars


\* The same program on every config file over SectionNames.
InitEndpoint ==
    InitWith(Profiles, AllFiles, {<<"a">>}, OneParamServer, OneInstanceServer)

SpecEndpoint == InitEndpoint /\ [][Next]_vars

\* The same program on every ~/.aws of up to MaxSections section headers.
InitList ==
    /\ InitProcessing({"dev"}, {NoFile}, {<<"a">>}, OneParamServer,
                      OneInstanceServer)
    /\ InitListing(AllAwsDirs)
    /\ InitShell

SpecList == InitList /\ [][Next]_vars

\* The window with the two bindings behind it: no Processing call is made
\* before the first click.
SomeAwsDirs ==
    { UsualAwsDir, NoHomeDir, AwsDir(Absent, Absent),
      AwsDir(Listing(<<>>), Absent), AwsDir(Absent, Listing(<<"dev">>)) }

InitWindow ==
    /\ profile = ""
    /\ filter \in SomeFilters
    /\ awsFile \in SomeFiles
    /\ ssmServer \in OneParamServer
    /\ ec2Server \in TwoInstanceServers
    /\ pc = "idle"
    /\ endpointURL = ""
    /\ cfg = 0
    /\ err = ""
    /\ pathErr = ""
    /\ runErr = ""
    /\ searchFilter = <<>>
    /\ paginator = NoPaginator
    /\ ec2Pager = NoPaginator
    /\ params = <<>>
    /\ instances = <<>>
    /\ result = NilResult
    /\ retResult = NilResult
    /\ retErr = NoErrValue
    /\ trace = <<>>
    /\ InitListing(SomeAwsDirs)
    /\ InitShell

NextWindow ==
    \/ ListProfiles
    \/ MountResolves
    \/ SelectProfile
    \/ EditFilter
    \/ StartClick
    \/ LoadConfig
    \/ ValidateAuth
    \/ Login
    \/ Reload
    \/ SsmNextPage
    \/ Ec2NextPage
    \/ ProcessingSettles

SpecWindow == InitWindow /\ [][NextWindow]_vars

\* ===================================================================== claims
\* What the trace says.
Calls(op) == {i \in DOMAIN trace : trace[i].op = op}

Failed(op) == {i \in Calls(op) : ~trace[i].ok}

Logins == Calls("aws sso login")

\* A rebuild of the context: a LoadDefaultConfig after the identity check.
Rebuilds ==
    {i \in Calls("LoadDefaultConfig") :
        \E j \in Calls("GetCallerIdentity") : j < i}

IdentityFailed == Failed("GetCallerIdentity") # {}

Finished == pc \in {"done", "panic"}

\* C1: when an endpoint override is resolved and the identity check fails,
\* the run has ended with that check as its last external call: the login
\* was never run, the configuration was loaded once only, no page was
\* fetched, and the error returned names the override endpoint and wraps the
\* identity check's error; no result is returned.
Thm_C1 ==
    (getEndpointFromConfig(awsFile, profile) # "" /\ IdentityFailed) =>
        /\ pc = "done"
        /\ Logins = {}
        /\ Cardinality(Calls("LoadDefaultConfig")) = 1
        /\ Rebuilds = {}
        /\ Calls("DescribeParameters") = {}
        /\ Calls("DescribeInstances") = {}
        /\ trace[Len(trace)].op = "GetCallerIdentity"
        /\ retResult = NilResult
        /\ retErr.kind = "failed to validate identity with custom endpoint"
        /\ retErr.names = getEndpointFromConfig(awsFile, profile)
        /\ err \in StsErrors
        /\ retErr.wraps = err

Witness_C1 ==
    /\ pc = "done"
    /\ endpointURL = URL1
    /\ IdentityFailed
    /\ retErr.wraps = "ExpiredToken"

\* C2 as stated: in every finished run with no override and a failed
\* identity check there was exactly one login and exactly one rebuild, the
\* rebuild after the login.
Orig_C2 ==
    (Finished /\ endpointURL = "" /\ IdentityFailed) =>
        /\ Cardinality(Logins) = 1
        /\ Cardinality(Rebuilds) = 1
        /\ \A r \in Rebuilds : \E l \in Logins : l < r

\* C2 amended: in every finished run with no override and a failed identity
\* check the login ran exactly once if the aws executable was found and not
\* at all otherwise, and the context was rebuilt exactly once, directly after
\* the login, if the login exited without error and not at all otherwise.
Thm_C2 ==
    (Finished /\ endpointURL = "" /\ IdentityFailed) =>
        /\ Cardinality(Logins) = (IF pathErr = "" THEN 1 ELSE 0)
        /\ Cardinality(Rebuilds) =
               (IF pathErr = "" /\ Failed("aws sso login") = {} THEN 1 ELSE 0)
        /\ \A r \in Rebuilds : (r - 1) \in Logins /\ trace[r - 1].ok

Witness_C2 ==
    /\ pc = "done"
    /\ endpointURL = ""
    /\ IdentityFailed
    /\ Cardinality(Logins) = 1
    /\ Cardinality(Rebuilds) = 1
    /\ ~retResult.nil

\* C10: at every point of a run there has been at most one login, at most one
\* identity check and at most two configuration loads; a rebuild comes after
\* a login that exited without error, and after a rebuild there is neither
\* an identity check nor a login.
Thm_C10 ==
    /\ Cardinality(Logins) <= 1
    /\ Cardinality(Calls("GetCallerIdentity")) <= 1
    /\ Cardinality(Calls("LoadDefaultConfig")) <= 2
    /\ \A r \in Rebuilds : \E l \in Logins : l < r /\ trace[l].ok
    /\ \A r \in Rebuilds : \A j \in DOMAIN trace :
           j > r => trace[j].op \notin {"GetCallerIdentity", "aws sso login"}

Witness_C10 ==
    /\ pc = "ec2"
    /\ Rebuilds # {}
    /\ cfg = 2


\* What the listings hold, read off the pages the services serve.
IsName(x) == x # NIL

RECURSIVE Flatten(_)
Flatten(ss) ==
    IF ss = <<>> THEN <<>>
    ELSE Flatten(SubSeq(ss, 1, Len(ss) - 1)) \o ss[Len(ss)]

ExpectedNames(server) ==
    Flatten([k \in DOMAIN server |-> SelectSeq(server[k], IsName)])

NameTags(inst) == {i \in DOMAIN inst.Tags : inst.Tags[i].Key = "Name"}

ExpectedRecord(inst) ==
    [Name |-> IF NameTags(inst) = {} THEN ""
              ELSE inst.Tags[CHOOSE i \in NameTags(inst) :
                                 \A j \in NameTags(inst) : i <= j].Value,
     AMI  |-> IF inst.ImageId = NIL THEN "" ELSE inst.ImageId]

ExpectedInstances(server) ==
    LET insts == Flatten(Flatten(server))
    IN [k \in DOMAIN insts |-> ExpectedRecord(insts[k])]

PageFailures == Failed("DescribeParameters") \cup Failed("DescribeInstances")

\* C3: a run that has returned has returned either no error and a result
\* whose two lists are the whole of what the two listings hold, or an error
\* and no result.
Thm_C3 ==
    pc = "done" =>
        \/ /\ retErr = NoErrValue
           /\ ~retResult.nil
           /\ retResult.Parameters = ExpectedNames(ssmServer)
           /\ retResult.Instances = ExpectedInstances(ec2Server)
        \/ /\ retErr # NoErrValue
           /\ retResult = NilResult

Witness_C3 ==
    /\ pc = "done"
    /\ retErr = NoErrValue
    /\ Len(ssmServer) = 2
    /\ Len(ec2Server) = 2
    /\ Len(retResult.Parameters) = 2
    /\ Len(retResult.Instances) = 6

\* C4: a failed page fetch of either listing is the last external call of
\* the run: the run has returned, with the listing's error and no result.
Thm_C4 ==
    \A i \in PageFailures :
        /\ i = Len(trace)
        /\ pc = "done"
        /\ retResult = NilResult
        /\ retErr.kind = (IF trace[i].op = "DescribeParameters"
                          THEN "failed to list params"
                          ELSE "failed to describe instances")

\* The second of three instance pages fails after names and instances have
\* been collected.
Witness_C4 ==
    /\ Failed("DescribeInstances") # {}
    /\ Cardinality(Calls("DescribeInstances")) = 2
    /\ Len(ec2Server) = 3
    /\ params # <<>>
    /\ instances # <<>>

\* The pattern has been sent once a page of parameters has been asked for.
Sent == Calls("DescribeParameters") # {}

EndsWithStar(s) == s # <<>> /\ s[Len(s)] = "*"

WithoutLast(s) == [i \in 1..(Len(s) - 1) |-> s[i]]

StripOne(s) == IF EndsWithStar(s) THEN WithoutLast(s) ELSE s

\* C5 as stated: the pattern sent is the raw filter with at most one trailing
\* "*" removed and then one "*" appended.
Orig_C5 == Sent => searchFilter = StripOne(filter) \o <<"*">>

\* C5 amended: for a raw filter that does not end in two or more "*" the
\* pattern sent is the filter with at most one trailing "*" removed and then
\* one "*" appended ("" gives "*", "a" gives "a*", "a*" gives "a*"); for a
\* raw filter that ends in two or more "*" it is the filter with its last "*"
\* removed and nothing appended.
Thm_C5 ==
    Sent =>
        /\ ~EndsWithStar(StripOne(filter)) =>
               searchFilter = StripOne(filter) \o <<"*">>
        /\ EndsWithStar(StripOne(filter)) => searchFilter = WithoutLast(filter)
        /\ filter = <<>> => searchFilter = <<"*">>
        /\ filter = <<"a">> => searchFilter = <<"a", "*">>
        /\ filter = <<"a", "*">> => searchFilter = <<"a", "*">>

Witness_C5 ==
    /\ Sent
    /\ filter = <<"a", "*", "*">>
    /\ searchFilter = <<"a", "*">>

\* C6: the pattern sent ends with exactly one "*": its last character is "*"
\* and the character before it, if any, is not.
Claim_C6 ==
    Sent =>
        /\ EndsWithStar(searchFilter)
        /\ Len(searchFilter) >= 2 => searchFilter[Len(searchFilter) - 1] # "*"

Thm_C8 ==
    (pc = "done" /\ retErr = NoErrValue) =>
        retResult.Parameters = ExpectedNames(ssmServer)

Witness_C8 ==
    /\ pc = "done"
    /\ ssmServer = << <<"a", "b">>, <<"a">> >>
    /\ retResult.Parameters = <<"a", "b", "a">>

\* C9: once every instance page has been fetched without error the run has
\* returned, and the instance list returned has one record for each instance
\* served, in page, reservation and instance order, its name the value of the
\* first tag whose key is "Name" ("" without one), its ami the image
\* identifier ("" without one).
Claim_C9 ==
    (/\ Cardinality(Calls("DescribeInstances")) = Len(ec2Server)
     /\ Failed("DescribeInstances") = {}) =>
        /\ pc = "done"
        /\ retErr = NoErrValue
        /\ retResult.Instances = ExpectedInstances(ec2Server)

\* The tag loop dereferences tag.Key of every tag it visits and tag.Value of
\* the tag it stops at.
Dereferenced(inst) ==
    {i \in DOMAIN inst.Tags : \A j \in NameTags(inst) : i <= j}

NilDereference(inst) ==
    \E i \in Dereferenced(inst) :
        \/ inst.Tags[i].Key = NIL
        \/ inst.Tags[i].Key = "Name" /\ inst.Tags[i].Value = NIL

\* The same walk on the instances whose tag loop dereferences no nil: there
\* the run returns the expected records.
WalkWithoutNilTags ==
    (/\ Cardinality(Calls("DescribeInstances")) = Len(ec2Server)
     /\ Failed("DescribeInstances") = {}
     /\ \A k \in DOMAIN Flatten(Flatten(ec2Server)) :
            ~NilDereference(Flatten(Flatten(ec2Server))[k])) =>
        /\ pc = "done"
        /\ retErr = NoErrValue
        /\ retResult.Instances = ExpectedInstances(ec2Server)


PageCalls == Calls("DescribeParameters") \cup Calls("DescribeInstances")

Succeeded(op) == {i \in Calls(op) : trace[i].ok}

\* C11: with no override and a failed identity check, a missing aws
\* executable ends the run, before any login, with an error that names the
\* tool and wraps the identity check's error, and a login that exits with an
\* error ends the run with the login-failed error; in both cases there is no
\* rebuild, no page fetch and no result.
Thm_C11 ==
    /\ (endpointURL = "" /\ IdentityFailed /\ pathErr # "") =>
           /\ pc = "done"
           /\ retErr.kind = "aws cli not found in PATH, cannot perform sso login"
           /\ retErr.names = "aws"
           /\ err \in StsErrors
           /\ retErr.wraps = err
           /\ Logins = {}
    /\ Failed("aws sso login") # {} =>
           /\ pc = "done"
           /\ retErr.kind = "aws sso login failed"
           /\ retErr.wraps = runErr
           /\ runErr # ""
           /\ Cardinality(Logins) = 1
    /\ ((endpointURL = "" /\ IdentityFailed /\ pathErr # "")
        \/ Failed("aws sso login") # {}) =>
           /\ Rebuilds = {}
           /\ PageCalls = {}
           /\ retResult = NilResult

Witness_C11 ==
    /\ pc = "done"
    /\ endpointURL = ""
    /\ Failed("aws sso login") # {}
    /\ err = "connection refused"

\* C14: the external calls of a run come in the order load, identity check,
\* (login, reload), parameter pages, instance pages: a page is fetched only
\* after an identity check that passed or a login and a reload that both
\* succeeded, an instance page only after every parameter page was fetched
\* without error, and a result is returned only after the last instance page.
Thm_C14 ==
    /\ pc # "start" =>
           /\ trace[1].op = "LoadDefaultConfig"
           /\ endpointURL = getEndpointFromConfig(awsFile, profile)
    /\ \A i \in Calls("GetCallerIdentity") : i = 2 /\ trace[1].ok
    /\ \A i \in PageCalls :
           \/ \E j \in Succeeded("GetCallerIdentity") : j < i
           \/ \E l \in Succeeded("aws sso login") :
                  \E r \in Succeeded("LoadDefaultConfig") :
                      /\ \E v \in Failed("GetCallerIdentity") : v < l
                      /\ l < r
                      /\ r < i
    /\ \A i \in Calls("DescribeInstances") :
           /\ Failed("DescribeParameters") = {}
           /\ Cardinality({j \in Succeeded("DescribeParameters") : j < i})
                  = Len(ssmServer)
           /\ \A j \in Calls("DescribeParameters") : j < i
    /\ (pc = "done" /\ retErr = NoErrValue) =>
           /\ trace[Len(trace)].op = "DescribeInstances"
           /\ Cardinality(Succeeded("DescribeInstances")) = Len(ec2Server)

Witness_C14 ==
    /\ pc = "done"
    /\ retErr = NoErrValue
    /\ Succeeded("aws sso login") # {}
    /\ Len(ssmServer) = 3
    /\ Len(ec2Server) = 2

\* C15: once a login has succeeded and the configuration has been reloaded,
\* every page of both listings is fetched by a client made from the reloaded
\* configuration; a configuration that failed the identity check is never
\* the one a page is fetched with.
Thm_C15 ==
    /\ (Succeeded("aws sso login") # {} /\ Rebuilds # {}) =>
           \A i \in PageCalls : trace[i].cfg = 2
    /\ IdentityFailed =>
           \A i \in PageCalls :
               \A v \in Failed("GetCallerIdentity") : trace[i].cfg # trace[v].cfg

Witness_C15 ==
    /\ Succeeded("aws sso login") # {}
    /\ Calls("DescribeParameters") # {}
    /\ Calls("DescribeInstances") # {}
    /\ \A i \in PageCalls : trace[i].cfg = 2

\* C18: a run that has not returned can take a step (so, every step adding
\* one call to the trace, it goes on until it returns); each listing is asked
\* for no more pages than it has, and in a run that returns a result for
\* exactly the pages it has.
Claim_C18 ==
    /\ pc = "done" \/ ENABLED Processing
    /\ Cardinality(Succeeded("DescribeParameters")) <= Len(ssmServer)
    /\ Cardinality(Succeeded("DescribeInstances")) <= Len(ec2Server)
    /\ (pc = "done" /\ retErr = NoErrValue) =>
           /\ Cardinality(Calls("DescribeParameters")) = Len(ssmServer)
           /\ Cardinality(Calls("DescribeInstances")) = Len(ec2Server)

\* C19: the instance walk never faults: whatever tags the instances of a page
\* carry, the run is not stopped by a panic.
Claim_C19 == pc # "panic"


\* What the config file holds: section name carries the endpoint_url key.
KeyIn(file, name) ==
    /\ ~file.homeErr
    /\ ~file.loadErr
    /\ name \in DOMAIN file.sections
    /\ file.sections[name] \in {URL1, URL2}

PrefixedName(P) == IF P = "default" THEN "default" ELSE "profile " \o P

\* C12: the endpoint resolved is empty whenever the home directory is not
\* known, the config file does not load, or neither the prefixed section of
\* the profile nor its bare section holds the endpoint_url key.
Thm_C12 ==
    pc # "start" =>
        /\ awsFile.homeErr => endpointURL = ""
        /\ awsFile.loadErr => endpointURL = ""
        /\ (~KeyIn(awsFile, PrefixedName(profile)) /\ ~KeyIn(awsFile, profile)) =>
               endpointURL = ""

\* The file gives the default profile an override and the profile asked for
\* none.
Witness_C12 ==
    /\ pc # "start"
    /\ profile = "dev"
    /\ KeyIn(awsFile, "default")
    /\ "profile dev" \in DOMAIN awsFile.sections
    /\ ~KeyIn(awsFile, "profile dev")
    /\ ~KeyIn(awsFile, "dev")
    /\ endpointURL = ""

\* C16: when the prefixed section ("default" for the default profile) holds
\* the key its value is the endpoint resolved, whatever the bare section
\* holds; when it does not and the bare section does, the bare section's
\* value is.
Thm_C16 ==
    pc # "start" =>
        /\ KeyIn(awsFile, PrefixedName(profile)) =>
               endpointURL = awsFile.sections[PrefixedName(profile)]
        /\ (~KeyIn(awsFile, PrefixedName(profile)) /\ KeyIn(awsFile, profile)) =>
               endpointURL = awsFile.sections[profile]

Witness_C16 ==
    /\ pc # "start"
    /\ profile = "dev"
    /\ KeyIn(awsFile, "profile dev")
    /\ KeyIn(awsFile, "dev")
    /\ awsFile.sections["profile dev"] = URL1
    /\ awsFile.sections["dev"] = URL2
    /\ endpointURL = URL1


\* What ~/.aws holds, for the listing claims.
Listed == listPc = "done"

NeitherExists ==
    /\ ~awsDir.homeErr
    /\ ~awsDir.config.exists
    /\ ~awsDir.credentials.exists

\* The file a listing reads: the config file when it exists, the credentials
\* file otherwise.
ListingFile ==
    IF awsDir.config.exists THEN awsDir.config ELSE awsDir.credentials

ListingLoaded ==
    /\ ~awsDir.homeErr
    /\ ListingFile.exists
    /\ ~ListingFile.loadErr

\* The entry each section header stands for.
EntryOf(h) ==
    CASE h = "profile dev"         -> "dev"
      [] h = "profile profile dev" -> "profile dev"
      [] OTHER                     -> h

EntriesOf(headers) == [i \in DOMAIN headers |-> EntryOf(headers[i])]

\* C13: with the home directory known and neither file there, the listing
\* returns the empty list and no error; the credentials file is the file
\* settled on exactly when the config file does not exist.
Thm_C13 ==
    /\ (Listed /\ NeitherExists) =>
           /\ profiles = List(<<>>)
           /\ listErr = NoErrValue
    /\ (Listed /\ ~awsDir.homeErr) =>
           (configPath = "credentials" <=> ~awsDir.config.exists)
    /\ (Listed /\ ~awsDir.homeErr /\ awsDir.config.exists) =>
           configPath = "config"

Witness_C13 ==
    /\ Listed
    /\ NeitherExists
    /\ profiles = List(<<>>)
    /\ listErr = NoErrValue

\* C17 as stated: when the listing file loads, the list returned holds one
\* entry for every section header of the file, in file order.
Orig_C17 ==
    (Listed /\ ListingLoaded) =>
        /\ listErr = NoErrValue
        /\ profiles.items = EntriesOf(ListingFile.headers)

\* C17: when the listing file loads, the list returned holds one entry for
\* every section header of the file other than DEFAULT, in file order: N for
\* a header "profile " + N, the header itself for any other.
Thm_C17 ==
    (Listed /\ ListingLoaded) =>
        /\ listErr = NoErrValue
        /\ profiles.items =
               EntriesOf(SelectSeq(ListingFile.headers, LAMBDA h : h # "DEFAULT"))

Witness_C17 ==
    /\ Listed
    /\ ListingLoaded
    /\ ListingFile.headers = <<"profile dev", "default">>
    /\ profiles = List(<<"dev", "default">>)

\* C20: a listing that returns no error returns a list, never nil.
Claim_C20 ==
    (Listed /\ listErr = NoErrValue) => ~profiles.nil


\* Runs in flight: Processing calls made and not yet settled.
InFlight == started - settled

\* C21: a run starts only while loading is false and a profile is selected,
\* with no other run in flight, and its start leaves loading true and result
\* and error cleared; a run that finishes leaves loading false, the feedback
\* message cleared and exactly one of result and error set; at every moment at
\* most one run is in flight, and one is exactly while loading is true.
Thm_C21 ==
    [][ /\ started' > started =>
               /\ ~loading
               /\ selectedProfile # ""
               /\ InFlight = 0
               /\ loading'
               /\ shellResult' = NilResult
               /\ error' = NIL
        /\ settled' > settled =>
               /\ ~loading'
               /\ feedbackMessage' = NIL
               /\ (~shellResult'.nil) # (error' # NIL)
        /\ InFlight' \in {0, 1}
        /\ loading' <=> (InFlight' = 1) ]_vars

\* A second run, started after the first one finished, has finished with a
\* result.
Witness_C21 ==
    /\ started = 2
    /\ settled = 2
    /\ ~loading
    /\ feedbackMessage = NIL
    /\ ~shellResult.nil
    /\ error = NIL

=============================================================================
